---- MODULE Spec2Model ----
(***************************************************************************)
(* A model of Bryozoan.py: the Colony class (lattice construction, the    *)
(* outflow-conductance setter, the pressure/flow solve, the feedback law   *)
(* dCdt_default and the log-space integration of UpdateColony).            *)
(*                                                                         *)
(* Numbers.  Every float of the program is a fixed-point integer counting  *)
(* halves (2 stands for 1.0, 1 for 0.5, -2 for -1.0).  Products and        *)
(* quotients are rounded to the grid, magnitudes above MaxAbs overflow to  *)
(* an infinity, and inf/nan are kept as values of their own, as IEEE       *)
(* arithmetic keeps them.  numpy arrays are functions on 0..len-1.         *)
(***************************************************************************)
EXTENDS Integers, Sequences, FiniteSets, TLC

\* ------------------------------------------------------------------ bounds
\* Largest lattice built: nz in 1..MaxNz zooid columns, mz in 1..MaxMz rows.
MaxNz == 2
MaxMz == 2
\* Longest argument list handed to setouterconductivities.
MaxLen == 2
\* Largest finite magnitude of the fixed-point format (in halves).
MaxAbs == 12
\* Largest magnitude (in whole units) of a pressure bicgstab hands back.
MaxP == 2
\* Largest integration horizon tmax.
MaxT == 2

\* ------------------------------------------------------- extended numbers
PosInf == MaxAbs + 1
NegInf == 0 - PosInf
NaN == PosInf + 1

IsNaN(x) == x = NaN
IsInf(x) == x = PosInf \/ x = NegInf
IsFinite(x) == ~IsNaN(x) /\ ~IsInf(x)

\* A computed integer brought back into the format: overflow gives +-inf.
Fin(x) == IF x > MaxAbs THEN PosInf ELSE IF x < 0 - MaxAbs THEN NegInf ELSE x

Sgn(x) == IF x > 0 THEN 1 ELSE IF x < 0 THEN 0 - 1 ELSE 0
AbsInt(x) == IF x < 0 THEN 0 - x ELSE x

\* a / b rounded to the nearest integer, ties away from zero (b # 0).
RoundDiv(a, b) ==
    LET q == (2 * AbsInt(a) + AbsInt(b)) \div (2 * AbsInt(b))
    IN  Sgn(a) * Sgn(b) * q

SignedInf(s) == IF s > 0 THEN PosInf ELSE NegInf

\* abs()
FAbs(a) == IF IsNaN(a) THEN NaN ELSE IF IsInf(a) THEN PosInf ELSE AbsInt(a)

FNeg(a) == IF IsNaN(a) THEN NaN ELSE 0 - a

\* a + b
FAdd(a, b) ==
    IF IsNaN(a) \/ IsNaN(b) THEN NaN
    ELSE IF IsInf(a) /\ IsInf(b) THEN (IF a = b THEN a ELSE NaN)
    ELSE IF IsInf(a) THEN a
    ELSE IF IsInf(b) THEN b
    ELSE Fin(a + b)

\* a - b
FSub(a, b) == FAdd(a, FNeg(b))

\* a * b  (both in halves, the product in halves)
FMul(a, b) ==
    IF IsNaN(a) \/ IsNaN(b) THEN NaN
    ELSE IF IsInf(a) \/ IsInf(b)
         THEN (IF a = 0 \/ b = 0 THEN NaN ELSE SignedInf(Sgn(a) * Sgn(b)))
    ELSE Fin(RoundDiv(a * b, 2))

\* a / b  (numpy's float division: x/0 is +-inf, 0/0 is nan)
FDiv(a, b) ==
    IF IsNaN(a) \/ IsNaN(b) THEN NaN
    ELSE IF IsInf(a) THEN (IF IsInf(b) THEN NaN
                           ELSE SignedInf(Sgn(a) * (IF b < 0 THEN 0 - 1 ELSE 1)))
    ELSE IF IsInf(b) THEN 0
    ELSE IF b = 0 THEN (IF a = 0 THEN NaN ELSE SignedInf(Sgn(a)))
    ELSE Fin(RoundDiv(2 * a, b))

\* a ** k for an exponent k of integral value (x**0 is 1 for every x,
\* 0**k is inf for k < 0)
RECURSIVE FPow(_, _)
FPow(a, k) ==
    IF k = 0 THEN 2
    ELSE IF k < 0 THEN FDiv(2, FPow(a, 0 - k))
    ELSE FMul(a, FPow(a, k - 1))

\* k * a for a plain (dimensionless, integral) factor k
FScale(k, a) ==
    IF IsNaN(a) THEN NaN
    ELSE IF IsInf(a) THEN (IF k = 0 THEN NaN ELSE SignedInf(Sgn(k) * Sgn(a)))
    ELSE Fin(k * a)

\* np.log on the grid: round(2*ln(c/2)) for c = 1..24; log(0) = -inf,
\* log of a negative number is nan.
LogTable == <<0 - 1, 0, 1, 1, 2, 2, 3, 3, 3, 3, 3, 4,
              4, 4, 4, 4, 4, 4, 5, 5, 5, 5, 5, 5>>
Log(c) ==
    IF IsNaN(c) \/ c < 0 THEN NaN
    ELSE IF c = 0 THEN NegInf
    ELSE IF c = PosInf THEN PosInf
    ELSE LogTable[c]

\* np.exp on the grid: round(2*exp(y/2)) for y = -3..7 (0 below: underflow).
ExpTable == <<0, 1, 1, 2, 3, 5, 9, 15, 24, 40, 66>>
Exp(y) ==
    IF IsNaN(y) THEN NaN
    ELSE IF y = NegInf THEN 0
    ELSE IF y = PosInf THEN PosInf
    ELSE IF y < 0 - 3 THEN 0
    ELSE IF y > 7 THEN PosInf
    ELSE Fin(ExpTable[y + 4])

\* float(x) >= 0 as Python compares it: False for nan.
GeZero(x) == ~IsNaN(x) /\ x >= 0

\* ------------------------------------------------------------ numpy arrays
ArrLen(a) == Cardinality(DOMAIN a)
EmptyArr == [i \in {} |-> 0]
\* np.array([v] * k)
Full(k, v) == [i \in 0..(k - 1) |-> v]
\* arange(a, b, s), s > 0
Arange(a, b, s) ==
    LET len == IF b > a THEN (b - a + s - 1) \div s ELSE 0
    IN  [i \in 0..(len - 1) |-> a + i * s]
\* concatenate((a, b))
Concat(a, b) ==
    [i \in 0..(ArrLen(a) + ArrLen(b) - 1) |->
        IF i < ArrLen(a) THEN a[i] ELSE b[i - ArrLen(a)]]
\* a[lo:hi]
Slice(a, lo, hi) ==
    LET h == IF hi > ArrLen(a) THEN ArrLen(a) ELSE hi
    IN  [i \in 0..(h - lo - 1) |-> a[lo + i]]
\* delete(a, idx): a without the positions listed in idx
Delete(a, idx) ==
    LET drop == {idx[j] : j \in DOMAIN idx}
        keep == {i \in DOMAIN a : i \notin drop}
        \* the position in a of the k-th kept element
        pos(k) == CHOOSE i \in keep : Cardinality({j \in keep : j < i}) = k
    IN  [k \in 0..(Cardinality(keep) - 1) |-> a[pos(k)]]

\* ------------------------------------------------------- Python values
\* A Python number handed to the program: its type and its value in halves.
\* "int" and "float" are the builtin types, "npint" a numpy integer scalar
\* (np.int64), which is an instance of neither.
PyInt(x) == [ty |-> "int", v |-> 2 * x]
PyFloatHalves(h) == [ty |-> "float", v |-> h]
NpInt(x) == [ty |-> "npint", v |-> 2 * x]

\* isinstance(item, (int, float))
IsIntOrFloat(item) == item.ty \in {"int", "float"}

\* dtype of np.array([x] * k)
DtypeOf(x) == IF x.ty = "float" THEN "float" ELSE "int"

\* The value an array of the given dtype keeps when x is assigned to one of
\* its elements: an integer array keeps the integral part (towards zero).
Store(dtype, x) ==
    IF dtype = "int" THEN Sgn(x) * (AbsInt(x) \div 2) * 2 ELSE x

\* ------------------------------------------------------------- topology
\* rowinds and colinds as __init__ builds them, for n nodes per row, m rows.
BuildRowinds(nn, mm) ==
    LET r0 == Arange(0, mm * nn, 1)
        r1 == Delete(r0, Arange(nn - 1, mm * nn, nn))
        r2 == Concat(r1, Arange(0, (mm - 1) * nn + 1, nn))
    IN  Concat(r2, Arange(1, (mm - 1) * nn, 2))

BuildColinds(nn, mm) ==
    LET c0 == Arange(1, mm * nn + 1, 1)
        c1 == Delete(c0, Arange(nn - 1, mm * nn, nn))
        c2 == Concat(c1, Arange(nn - 1, mm * nn, nn))
    IN  Concat(c2, Arange(nn, mm * nn, 2))

\* coo_matrix(([1]*len(rows), (rows, cols)), [nn, nn]) as a dense matrix:
\* entries listed twice add up when the matrix is converted or added.
CooDense(rows, cols, nrows, ncols) ==
    [i \in 0..(nrows - 1) |-> [j \in 0..(ncols - 1) |->
        Cardinality({k \in DOMAIN rows : rows[k] = i /\ cols[k] = j})]]

\* UpperAdjacency.nnz: the entries a coo matrix stores, duplicates included.
UpperNnz(rows, cols) == ArrLen(rows)

\* Adjacency = UpperAdjacency + UpperAdjacency.transpose()
BuildAdjacency(rows, cols, nodes) ==
    LET U == CooDense(rows, cols, nodes, nodes)
    IN  [i \in 0..(nodes - 1) |-> [j \in 0..(nodes - 1) |-> U[i][j] + U[j][i]]]

RECURSIVE SumTo(_, _)
\* f[0] + ... + f[k-1]
SumTo(f, k) == IF k = 0 THEN 0 ELSE SumTo(f, k - 1) + f[k - 1]

\* Laplacian = Adjacency - Degree, Degree = diag(row sums of Adjacency)
BuildLaplacian(A, nodes) ==
    [i \in 0..(nodes - 1) |-> [j \in 0..(nodes - 1) |->
        A[i][j] - (IF i = j THEN SumTo(A[i], nodes) ELSE 0)]]

\* A variant with head and tail exchanged: +1 at rowinds[k], -1 at colinds[k]
BuildIncidence_HeadTail(rows, cols, nodes) ==
    [k \in 0..(UpperNnz(rows, cols) - 1) |-> [j \in 0..(nodes - 1) |->
        (IF rows[k] = j THEN 1 ELSE 0) + (IF cols[k] = j THEN 0 - 1 ELSE 0)]]

\* Incidence = coo(-1 at (k, rowinds[k])) + coo(+1 at (k, colinds[k])),
\* the first of shape [UpperAdjacency.nnz, n*m], the second [len(rowinds), n*m]
BuildIncidence(rows, cols, nodes) ==
    [k \in 0..(UpperNnz(rows, cols) - 1) |-> [j \in 0..(nodes - 1) |->
        (IF rows[k] = j THEN 0 - 1 ELSE 0) + (IF cols[k] = j THEN 1 ELSE 0)]]

\* ----------------------------------------------------------------- state
VARIABLES
    n,                \* self.n: nodes per row (2 * nz)
    m,                \* self.m: rows (mz)
    rowinds,          \* self.rowinds: tail node of each internal conduit
    colinds,          \* self.colinds: head node of each internal conduit
    InnerConduits,    \* self.InnerConduits: internal conductances
    InnerDtype,       \* dtype of the InnerConduits array
    OutflowConduits,  \* self.OutflowConduits: one conductance per node
    OutflowDtype,     \* dtype of the OutflowConduits array
    InFlow,           \* self.InFlow: injection per node
    Adjacency,        \* self.Adjacency
    Laplacian,        \* self.Laplacian
    Incidence,        \* self.Incidence: one row per internal conduit
    dCdt_in_params,   \* the parameter set bound into self.dCdt_inner
    dCdt_out_params,  \* the parameter set bound into self.dCdt_outer
    call,             \* the call in progress or just made, with its arguments
    ret,              \* how that call ended and what it returned
    ode               \* UpdateColony's locals while it integrates

topology == <<n, m, rowinds, colinds, Adjacency, Laplacian, Incidence>>
conductances == <<InnerConduits, InnerDtype, OutflowConduits, OutflowDtype>>
params == <<dCdt_in_params, dCdt_out_params>>
colony == <<topology, conductances, InFlow, params>>
vars == <<colony, call, ret, ode>>

N == m * n

NoCall == [op |-> "none"]
NoRet == [outcome |-> "none"]
NoOde == [pc |-> "idle"]

\* ------------------------------------------------------ construction inputs
\* Feedback parameter sets {z, b, r, q}: b and r are plain factors, z and q
\* exponents of integral value (a negative one a float, -1.0).
ParamsRest == [z |-> 0, b |-> 0, r |-> 0, q |-> 1]     \* r = 0, as the default
ParamsRestB == [z |-> 1, b |-> 2, r |-> 0, q |-> 0]    \* r = 0, other b, z, q
ParamsGrow == [z |-> 0, b |-> 1, r |-> 1, q |-> 0]
ParamsGrowZ == [z |-> 1, b |-> 1, r |-> 2, q |-> 1]
ParamsNegQ == [z |-> 0, b |-> 1, r |-> 1, q |-> 0 - 1]
ParamsShrink == [z |-> 0, b |-> 0, r |-> 1, q |-> 0]    \* S = 0: dCdt = -r

\* Incurrents: -1 (the default)
DefaultIncurrents == PyInt(0 - 1)

\* The colonies constructed: InnerConductivity, OutflowConductivity and the
\* two parameter sets.
ConfigChoices ==
    { \* every default: conductivities the int 1, r = 0
      [inner |-> PyInt(1), outer |-> PyInt(1), pin |-> ParamsRest, pout |-> ParamsRest],
      \* float conductivities 2.0 and 1.0, r = 0 with other exponents
      [inner |-> PyFloatHalves(4), outer |-> PyFloatHalves(2),
       pin |-> ParamsRestB, pout |-> ParamsRest],
      \* inner conductivity 0.5 and no outflow conductance at all
      [inner |-> PyFloatHalves(1), outer |-> PyInt(0),
       pin |-> ParamsRest, pout |-> ParamsRestB],
      \* adapting colonies
      [inner |-> PyInt(1), outer |-> PyFloatHalves(1),
       pin |-> ParamsGrow, pout |-> ParamsGrowZ],
      [inner |-> PyFloatHalves(0), outer |-> PyFloatHalves(2),
       pin |-> ParamsNegQ, pout |-> ParamsGrow],
      \* outflow conduits that shrink while the inner ones rest
      [inner |-> PyFloatHalves(2), outer |-> PyFloatHalves(2),
       pin |-> ParamsRest, pout |-> ParamsShrink] }

\* Colony(nz, mz, InnerConductivity, OutflowConductivity, Incurrents, ...)
Construct(nz, mz, inner, outer, incurrents, pin, pout) ==
    LET nn == nz * 2
        mm == mz
        rows == BuildRowinds(nn, mm)
        cols == BuildColinds(nn, mm)
        adj == BuildAdjacency(rows, cols, mm * nn)
    IN  /\ n = nn
        /\ m = mm
        /\ rowinds = rows
        /\ colinds = cols
        /\ InnerConduits = Full(ArrLen(rows), inner.v)
        /\ InnerDtype = DtypeOf(inner)
        /\ Adjacency = adj
        /\ Laplacian = BuildLaplacian(adj, mm * nn)
        /\ Incidence = BuildIncidence(rows, cols, nn * mm)
        /\ OutflowConduits = Full(mm * nn, outer.v)
        /\ OutflowDtype = DtypeOf(outer)
        /\ InFlow = Full(mm * nn, incurrents.v)
        /\ dCdt_in_params = pin
        /\ dCdt_out_params = pout

Init ==
    /\ \E nz \in 1..MaxNz, mz \in 1..MaxMz, c \in ConfigChoices :
            Construct(nz, mz, c.inner, c.outer, DefaultIncurrents, c.pin, c.pout)
    /\ call = NoCall
    /\ ret = NoRet
    /\ ode = NoOde

\* ------------------------------------------------- setouterconductivities
\* A list item offered as a node index: int is isinstance(item, int), and v
\* the value (for an item that is no int, a float such as 1.5, its integral
\* part).
IndexChoices ==
    {[int |-> TRUE, v |-> x] : x \in {0 - 1, 0, 1, N, N + 1}}
        \cup {[int |-> FALSE, v |-> 1]}
\* New conductivities offered: 2, -1, 0.5 and np.int64(-1)
ValueChoices == {PyInt(2), PyInt(0 - 1), PyFloatHalves(1), NpInt(0 - 1)}

\* An (index, value) pair that meets every precondition.
PlainIndex == [int |-> TRUE, v |-> 0]
PlainValue == PyInt(2)

\* The lists of a given length tried: at most one position holds a free
\* choice, the others the plain item.
ListsOfLen(S, plain, len) ==
    {[k \in 1..len |-> plain]} \cup
    {[k \in 1..len |-> IF k = j THEN x ELSE plain] : j \in 1..len, x \in S}

\* (nodeinds, NewOuterConductivities); lists is FALSE when one of them is
\* not a list (a tuple, say).  Lists of equal length up to MaxLen, two of
\* unequal length, and one call with a tuple.
SetterArgs ==
    UNION {{[nodeinds |-> ni, vals |-> vs, lists |-> TRUE] :
                ni \in ListsOfLen(IndexChoices, PlainIndex, len),
                vs \in ListsOfLen(ValueChoices, PlainValue, len)} : len \in 0..MaxLen}
    \cup {[nodeinds |-> <<PlainIndex>>, vals |-> <<PlainValue, PlainValue>>, lists |-> TRUE],
          [nodeinds |-> <<PlainIndex, PlainIndex>>, vals |-> <<PlainValue>>, lists |-> TRUE],
          [nodeinds |-> <<PlainIndex>>, vals |-> <<PlainValue>>, lists |-> FALSE]}

MaxOf(s) == CHOOSE x \in {s[k].v : k \in DOMAIN s} : \A k \in DOMAIN s : s[k].v <= x
MinOf(s) == CHOOSE x \in {s[k].v : k \in DOMAIN s} : \A k \in DOMAIN s : x <= s[k].v

\* The assignment loop of lines 327-328 from item k on: the array it leaves
\* and whether an assignment raised IndexError (the loop stops there).
RECURSIVE AssignLoop(_, _, _, _)
AssignLoop(arr, a, dtype, k) ==
    IF k > Len(a.nodeinds) THEN [arr |-> arr, raised |-> FALSE]
    ELSE IF a.nodeinds[k].v >= ArrLen(arr) THEN [arr |-> arr, raised |-> TRUE]
    ELSE AssignLoop([arr EXCEPT ![a.nodeinds[k].v] = Store(dtype, a.vals[k].v)],
                    a, dtype, k + 1)

\* What the call does: the outcome ("returned" or "raised"), the message it
\* prints or the exception it raises, and the OutflowConduits it leaves.
SetterResult(a) ==
    LET same(out, what) == [outcome |-> out, what |-> what, arr |-> OutflowConduits]
    IN  IF ~a.lists THEN same("returned", "Arguments must be lists")
        ELSE IF Len(a.vals) # Len(a.nodeinds)
            THEN same("returned", "List lengths must match")
        ELSE IF Len(a.nodeinds) = 0
            THEN same("raised", "ValueError")      \* max() of an empty list
        ELSE IF MaxOf(a.nodeinds) > m * n
            THEN same("returned", "node index >m*n")
        ELSE IF MinOf(a.nodeinds) < 0
            THEN same("returned", "node index <0")
        ELSE IF \E k \in DOMAIN a.nodeinds : ~a.nodeinds[k].int
            THEN same("returned", "node index not an int")
        ELSE IF \E k \in DOMAIN a.vals : a.vals[k].v < 0 /\ IsIntOrFloat(a.vals[k])
            THEN same("returned", "Conductivities must be >=0")
        ELSE LET w == AssignLoop(OutflowConduits, a, OutflowDtype, 1)
             IN  IF w.raised
                 THEN [outcome |-> "raised", what |-> "IndexError", arr |-> w.arr]
                 ELSE [outcome |-> "returned", what |-> "done", arr |-> w.arr]

setouterconductivities(a) ==
    /\ call.op = "none"
    /\ LET res == SetterResult(a)
       IN  /\ OutflowConduits' = res.arr
           /\ call' = [op |-> "setouterconductivities", args |-> a]
           /\ ret' = [outcome |-> res.outcome, what |-> res.what]
    /\ UNCHANGED <<topology, InnerConduits, InnerDtype, OutflowDtype, InFlow,
                   params, ode>>

\* ------------------------------------------------------------ solvecolony
Edges == ArrLen(InnerConduits)

\* A variant that stacks one outflow row too few.
BuildIncidenceFull_ShortDiag(inc, nodes) ==
    LET rows == ArrLen(inc)
    IN  [k \in 0..(rows + nodes - 2) |->
            IF k < rows THEN inc[k]
            ELSE [j \in 0..(nodes - 1) |-> IF j = k - rows THEN 0 - 1 ELSE 0]]

\* sparse.vstack((Incidence, sparse.diags([-1]*(m*n), 0))): the rows of
\* Incidence, then one row per node with -1 in the node's own column.
BuildIncidenceFull(inc, nodes) ==
    LET rows == ArrLen(inc)
    IN  [k \in 0..(rows + nodes - 1) |->
            IF k < rows THEN inc[k]
            ELSE [j \in 0..(nodes - 1) |-> IF j = k - rows THEN 0 - 1 ELSE 0]]

RECURSIVE RowDot(_, _, _)
\* (row * x) over the first k columns; a sparse row takes part only where it
\* stores an entry
RowDot(row, x, k) ==
    LET nz == {j \in 0..(k - 1) : row[j] # 0}
    IN  IF nz = {} THEN 0
        ELSE LET last == CHOOSE j \in nz : \A l \in nz : l <= j
             IN  FAdd(RowDot(row, x, last), FScale(row[last], x[last]))

\* IncidenceFull * Pressures: the signed pressure difference along each row
MatVec(A, x) == [e \in DOMAIN A |-> RowDot(A[e], x, ArrLen(x))]

RECURSIVE ColDot(_, _, _, _)
\* (transpose(A) * y)[i] over the first k rows
ColDot(A, y, i, k) ==
    LET nz == {e \in 0..(k - 1) : A[e][i] # 0}
    IN  IF nz = {} THEN 0
        ELSE LET last == CHOOSE e \in nz : \A l \in nz : l <= e
             IN  FAdd(ColDot(A, y, i, last), FScale(A[last][i], y[last]))

\* diag(C) * A * p
EdgeFlows(A, C, p) ==
    LET d == MatVec(A, p) IN [e \in DOMAIN A |-> FMul(C[e], d[e])]

\* transpose(A) * diag(C) * A * p
SystemTimes(A, C, p) ==
    LET f == EdgeFlows(A, C, p)
    IN  [i \in DOMAIN p |-> ColDot(A, f, i, ArrLen(A))]

\* p satisfies transpose(A)*diag(C)*A*p = q (to the grid) 
Solves(A, C, q, p) ==
    LET lhs == SystemTimes(A, C, p) IN \A i \in DOMAIN q : lhs[i] = q[i]

\* The pressure vectors bicgstab is taken to hand back when it converges:
\* whole pressures in -MaxP..MaxP, the same at every node but at most one.
PressureValues == {2 * k : k \in (0 - MaxP)..MaxP}
UniformPressures(nodes) == {Full(nodes, v) : v \in PressureValues}
PressureCandidates(nodes) ==
    UniformPressures(nodes) \cup
    {[j \in 0..(nodes - 1) |-> IF j = i THEN w ELSE v] :
        i \in 0..(nodes - 1), v \in PressureValues, w \in PressureValues}

RECURSIVE Grow(_, _, _)
\* The nodes joined to the set S by internal conduits of nonzero conductance
Grow(S, C, k) ==
    LET next == S \cup {j \in 0..(N - 1) : \E e \in 0..(Edges - 1) :
                        /\ C[e] # 0
                        /\ \/ (rowinds[e] = j /\ colinds[e] \in S)
                           \/ (colinds[e] = j /\ rowinds[e] \in S)}
    IN  IF k = 0 \/ next = S THEN S ELSE Grow(next, C, k - 1)

\* Some node has no path of nonzero conductances to the outside: the system
\* is singular and, every injection being nonzero, has no solution.
Singular(C) ==
    \/ \E e \in DOMAIN C : ~IsFinite(C[e])
    \/ \E i \in 0..(N - 1) : \A j \in Grow({i}, C, N) : C[Edges + j] = 0

\* bicgstab(transpose(A)*diags(C)*A, InFlow, x0=start): the vector it hands
\* back and its status info (0: converged; > 0: iterations exhausted;
\* < 0: breakdown).  A system with a solution among the candidates is
\* solved; a singular one is not, and the vector handed back is then the
\* start vector or one of nans.  Other systems are outside the model.
Bicgstab(A, C, q, start) ==
    LET sols == {p \in PressureCandidates(ArrLen(q)) : Solves(A, C, q, p)}
    IN  IF sols # {} THEN {[x |-> p, info |-> 0] : p \in sols}
        ELSE IF Singular(C)
             THEN {[x |-> start, info |-> 1],
                   [x |-> Full(ArrLen(q), NaN), info |-> 0 - 1]}
        ELSE {}

\* A variant that leaves out the parentheses of (S - 1): r*(Cs**q)*S - 1
dCdt_default_NoParen(Cs, dPs, pr) ==
    LET S == [i \in DOMAIN Cs |-> FAbs(FScale(pr.b, FMul(FPow(Cs[i], pr.z), dPs[i])))]
        d == [i \in DOMAIN Cs |->
                FSub(FScale(pr.r, FMul(FPow(Cs[i], pr.q), S[i])), 2)]
    IN  [dCdt |-> d, S |-> S]

\* dCdt_default(Cs, dPs, params): (dCdt, S), element by element
dCdt_default(Cs, dPs, pr) ==
    LET S == [i \in DOMAIN Cs |-> FAbs(FScale(pr.b, FMul(FPow(Cs[i], pr.z), dPs[i])))]
        d == [i \in DOMAIN Cs |->
                FScale(pr.r, FMul(FPow(Cs[i], pr.q), FSub(S[i], 2)))]
    IN  [dCdt |-> d, S |-> S]

\* self.dCdt_inner and self.dCdt_outer: dCdt with the parameter set bound
dCdt_inner(x, y) == dCdt_default(x, y, dCdt_in_params)
dCdt_outer(x, y) == dCdt_default(x, y, dCdt_out_params)

\* A variant that takes the flows from the absolute pressure differences
Flows_Abs(A, C, p) ==
    LET d == MatVec(A, p) IN [e \in DOMAIN A |-> FMul(C[e], FAbs(d[e]))]

\* The flows of lines 424-427
Flows(A, C, p) == EdgeFlows(A, C, p)

\* A variant that always reads the colony's own conductivities
Feedback_OwnConductances(A, p, kwC) ==
    LET d == MatVec(A, p)
        dP == [e \in DOMAIN d |-> FAbs(d[e])]
        i == dCdt_inner(InnerConduits, Slice(dP, 0, ArrLen(InnerConduits)))
        o == dCdt_outer(OutflowConduits, Slice(dP, ArrLen(InnerConduits), ArrLen(dP)))
    IN  [S |-> Concat(i.S, o.S), dCdt |-> Concat(i.dCdt, o.dCdt)]

\* The S and dCdt of lines 433-456.  kwC is the conductivityfull keyword
\* (<<>> when absent, <<c>> when given).
Feedback(A, p, kwC) ==
    LET d == MatVec(A, p)
        dP == [e \in DOMAIN d |-> FAbs(d[e])]
        dPinner == Slice(dP, 0, ArrLen(InnerConduits))
        dPouter == Slice(dP, ArrLen(InnerConduits), ArrLen(dP))
        innerCs == IF kwC = <<>> THEN InnerConduits
                   ELSE Slice(kwC[1], 0, ArrLen(InnerConduits))
        outerCs == IF kwC = <<>> THEN OutflowConduits
                   ELSE Slice(kwC[1], ArrLen(InnerConduits), ArrLen(kwC[1]))
        i == dCdt_inner(innerCs, dPinner)
        o == dCdt_outer(outerCs, dPouter)
    IN  [S |-> Concat(i.S, o.S), dCdt |-> Concat(i.dCdt, o.dCdt)]

\* The keyword arguments: each <<>> when absent, <<value>> when given.
NoKw == [conductivityfull |-> <<>>, IncidenceFull |-> <<>>, Pressures |-> <<>>]

\* conductivityfull of lines 387-391, IncidenceFull of lines 397-402
CondUsed(kw) ==
    IF kw.conductivityfull = <<>> THEN Concat(InnerConduits, OutflowConduits)
    ELSE kw.conductivityfull[1]
IncUsed(kw) ==
    IF kw.IncidenceFull = <<>> THEN BuildIncidenceFull(Incidence, m * n)
    ELSE kw.IncidenceFull[1]
\* the start vector of bicgstab: x0 when Pressures is given, else zeros
StartUsed(kw) ==
    IF kw.Pressures = <<>> THEN Full(ArrLen(InFlow), 0) ELSE kw.Pressures[1]

\* The matrix product of lines 411-418 is defined: diags(conductivityfull)
\* has as many rows as IncidenceFull, and IncidenceFull as many columns as
\* InFlow has entries.
ShapesAgree(kw) ==
    /\ ArrLen(CondUsed(kw)) = ArrLen(IncUsed(kw))
    /\ \A e \in DOMAIN IncUsed(kw) : ArrLen(IncUsed(kw)[e]) = ArrLen(InFlow)

\* The runs of bicgstab at lines 410-418 (none when the product is undefined)
SolverRuns(kw) ==
    IF ShapesAgree(kw)
    THEN Bicgstab(IncUsed(kw), CondUsed(kw), InFlow, StartUsed(kw))
    ELSE {}

\* networksols of lines 420-458, for the vector x bicgstab handed back
Networksols(calcflows, calcdCdt, kw, x) ==
    LET C == CondUsed(kw)
        A == IncUsed(kw)
        fb == Feedback(A, x, kw.conductivityfull)
    IN  [Pressures |-> x, conductivityfull |-> C, IncidenceFull |-> A,
         Flows |-> IF calcflows THEN <<Flows(A, C, x)>> ELSE <<>>,
         S |-> IF calcdCdt THEN <<fb.S>> ELSE <<>>,
         dCdt |-> IF calcdCdt THEN <<fb.dCdt>> ELSE <<>>]

\* How a solvecolony call ends: the dictionary it returns, with info, the
\* status bicgstab gave and line 411 drops with [0].
Returned(calcflows, calcdCdt, kw, b) ==
    [outcome |-> "returned", what |-> "networksols", info |-> b.info,
     value |-> Networksols(calcflows, calcdCdt, kw, b.x)]
\* ... or the exception of a product of mismatched shapes
ShapeError == [outcome |-> "raised", what |-> "ValueError"]

\* The conductivityfull vectors a caller passes: inner conduits all 2.0 and
\* outflow conduits all 0.5; and one that is one entry short.
CondFullChoices ==
    {Concat(Full(Edges, 4), Full(N, 1)), Full(Edges + N - 1, 2)}

\* The keyword combinations a caller passes: none; conductivityfull alone;
\* all three, as UpdateColony passes them.
KwChoices ==
    {NoKw}
    \cup {[NoKw EXCEPT !.conductivityfull = <<c>>] : c \in CondFullChoices}
    \cup {[conductivityfull |-> <<Concat(Full(Edges, 4), Full(N, 1))>>,
           IncidenceFull |-> <<BuildIncidenceFull(Incidence, m * n)>>,
           Pressures |-> <<Full(N, 0 - 2)>>]}

\* solvecolony(calcflows, calcdCdt, **kw), for either value of the two flags
solvecolony(kw) ==
    /\ call.op = "none"
    /\ LET runs == SolverRuns(kw)
       IN  \E calcflows \in BOOLEAN, calcdCdt \in BOOLEAN :
            /\ call' = [op |-> "solvecolony",
                        args |-> [calcflows |-> calcflows, calcdCdt |-> calcdCdt,
                                  kw |-> kw]]
            /\ IF ShapesAgree(kw)
               THEN \E r \in runs : ret' = Returned(calcflows, calcdCdt, kw, r)
               ELSE ret' = ShapeError
    /\ UNCHANGED <<colony, ode>>

\* ----------------------------------------------------------- UpdateColony
\* The keywords dlnCdt passes to solvecolony (lines 546-549)
RhsKw(C0) ==
    [conductivityfull |-> <<C0>>, IncidenceFull |-> <<ode.IncidenceFull>>,
     Pressures |-> <<ode.Pressures>>]

\* dlnCdt(t, lnC0) of lines 544-550, for the vector x the bicgstab run inside
\* its solvecolony call handed back: dCdt / C0
dlnCdt(y, x) ==
    LET C0 == [i \in DOMAIN y |-> Exp(y[i])]
        d == Networksols(FALSE, TRUE, RhsKw(C0), x).dCdt[1]
    IN  [i \in DOMAIN y |-> FDiv(d[i], C0[i])]

\* Lines 542-554: the reference solve, lnC0 and the integrator set at t = 0.
UpdateColony_Begin(tmax) ==
    /\ call.op = "none"
    /\ ShapesAgree(NoKw)
    /\ \E b \in SolverRuns(NoKw) :
        LET prm == Networksols(FALSE, FALSE, NoKw, b.x)
        IN  ode' = [pc |-> "integrating", tmax |-> tmax, t |-> 0,
                    y |-> [i \in DOMAIN prm.conductivityfull |->
                              Log(prm.conductivityfull[i])],
                    Pressures |-> prm.Pressures,
                    IncidenceFull |-> prm.IncidenceFull,
                    solves |-> 1, stepper |-> "running"]
    /\ call' = [op |-> "UpdateColony", args |-> [tmax |-> tmax]]
    /\ ret' = NoRet
    /\ UNCHANGED colony

\* A variant whose right-hand side takes the pressures of the reference
\* solve as they are and runs no solve of its own
UpdateColony_Step_NoSolve ==
    /\ ode.pc = "integrating"
    /\ ode.stepper = "running"
    /\ ode.t < ode.tmax
    /\ LET k == dlnCdt(ode.y, ode.Pressures)
       IN  IF \A i \in DOMAIN k : IsFinite(k[i])
           THEN \E h \in 1..(ode.tmax - ode.t) :
                   ode' = [ode EXCEPT
                             !.y = [i \in DOMAIN k |-> FAdd(ode.y[i], FScale(h, k[i]))],
                             !.t = ode.t + h]
           ELSE ode' = [ode EXCEPT !.stepper = "failed"]
    /\ UNCHANGED <<colony, call, ret>>

\* One step of y.integrate(tmax) (line 556): the right-hand side is evaluated
\* at the current estimate, which runs solvecolony and with it bicgstab; a
\* step of length h is taken when every derivative is finite, and the stepper
\* gives up (its error estimate is nan) when one is not.
UpdateColony_Step ==
    /\ ode.pc = "integrating"
    /\ ode.stepper = "running"
    /\ ode.t < ode.tmax
    /\ LET C0 == [i \in DOMAIN ode.y |-> Exp(ode.y[i])]
       IN  \E b \in SolverRuns(RhsKw(C0)) :
            LET k == dlnCdt(ode.y, b.x)
            IN  IF \A i \in DOMAIN k : IsFinite(k[i])
                THEN \E h \in 1..(ode.tmax - ode.t) :
                        ode' = [ode EXCEPT
                                  !.y = [i \in DOMAIN k |-> FAdd(ode.y[i], FScale(h, k[i]))],
                                  !.t = ode.t + h,
                                  !.solves = ode.solves + 1]
                ELSE ode' = [ode EXCEPT !.stepper = "failed",
                                        !.solves = ode.solves + 1]
    /\ UNCHANGED <<colony, call, ret>>

\* A variant that returns the integrator's vector as it is, in log space
UpdateColony_Return_NoExp ==
    /\ ode.pc = "integrating"
    /\ ode.t = ode.tmax \/ ode.stepper = "failed"
    /\ ret' = [outcome |-> "returned", what |-> "conductivities",
               value |-> ode.y, stepper |-> ode.stepper, solves |-> ode.solves]
    /\ ode' = NoOde
    /\ UNCHANGED <<colony, call>>

\* A variant that also stores the new conductivities in the colony
UpdateColony_Return_InPlace ==
    /\ ode.pc = "integrating"
    /\ ode.t = ode.tmax \/ ode.stepper = "failed"
    /\ LET new == [i \in DOMAIN ode.y |-> Exp(ode.y[i])]
       IN  /\ ret' = [outcome |-> "returned", what |-> "conductivities",
                      value |-> new, stepper |-> ode.stepper, solves |-> ode.solves]
           /\ InnerConduits' = Slice(new, 0, ArrLen(InnerConduits))
           /\ OutflowConduits' = Slice(new, ArrLen(InnerConduits), ArrLen(new))
    /\ ode' = NoOde
    /\ UNCHANGED <<topology, InnerDtype, OutflowDtype, InFlow, params, call>>

\* return np.exp(y.integrate(tmax)): the integrator's vector, whether it
\* reached tmax or gave up on the way.
UpdateColony_Return ==
    /\ ode.pc = "integrating"
    /\ ode.t = ode.tmax \/ ode.stepper = "failed"
    /\ ret' = [outcome |-> "returned", what |-> "conductivities",
               value |-> [i \in DOMAIN ode.y |-> Exp(ode.y[i])],
               stepper |-> ode.stepper, solves |-> ode.solves]
    /\ ode' = NoOde
    /\ UNCHANGED <<colony, call>>

\* The caller writes the result back (lines 575-576):
\* InnerConduits = newcs[0:len(InnerConduits)], OutflowConduits = newcs[len:]
WriteBack ==
    /\ call.op = "UpdateColony"
    /\ ret.outcome = "returned"
    /\ InnerConduits' = Slice(ret.value, 0, ArrLen(InnerConduits))
    /\ OutflowConduits' = Slice(ret.value, ArrLen(InnerConduits), ArrLen(ret.value))
    /\ InnerDtype' = "float"
    /\ OutflowDtype' = "float"
    /\ call' = NoCall
    /\ ret' = NoRet
    /\ UNCHANGED <<topology, InFlow, params, ode>>

\* The caller takes the result of the finished call and goes on.
Resume ==
    /\ call.op # "none"
    /\ ret.outcome # "none"
    /\ call' = NoCall
    /\ ret' = NoRet
    /\ UNCHANGED <<colony, ode>>

\* ------------------------------------------------------------ dCdt_default
\* The feedback law called on its own: one-element arrays Cs and dPs and a
\* parameter set, each drawn from a small range.
MaxC == 4
MaxParam == 2
FeedbackParams ==
    [z : 0..1, b : (0 - 1)..MaxParam, r : (0 - 1)..MaxParam, q : (0 - 1)..MaxParam]

FeedbackCall(C, dP, pr) ==
    /\ call.op = "none"
    /\ call' = [op |-> "dCdt_default",
                args |-> [Cs |-> Full(1, C), dPs |-> Full(1, dP), params |-> pr]]
    /\ ret' = [outcome |-> "returned", what |-> "tuple",
               value |-> dCdt_default(Full(1, C), Full(1, dP), pr)]
    /\ UNCHANGED <<colony, ode>>

Next ==
    \/ \E a \in SetterArgs : setouterconductivities(a)
    \/ \E kw \in KwChoices : solvecolony(kw)
    \/ \E tmax \in 0..MaxT : UpdateColony_Begin(tmax)
    \/ UpdateColony_Step
    \/ UpdateColony_Return
    \/ WriteBack
    \/ Resume

Spec == Init /\ [][Next]_vars

\* The feedback law alone, called from a default colony.
InitFeedback ==
    /\ Construct(1, 1, PyInt(1), PyInt(1), DefaultIncurrents, ParamsRest, ParamsRest)
    /\ call = NoCall
    /\ ret = NoRet
    /\ ode = NoOde

NextFeedback ==
    \/ \E C \in 0..MaxC, dP \in 0..MaxC, pr \in FeedbackParams : FeedbackCall(C, dP, pr)
    \/ Resume

SpecFeedback == InitFeedback /\ [][NextFeedback]_vars

\* Construction and the plain solve on larger lattices.
MaxLatNz == 3
MaxLatMz == 3

InitLattice ==
    /\ \E nz \in 1..MaxLatNz, mz \in 1..MaxLatMz, c \in ConfigChoices :
            Construct(nz, mz, c.inner, c.outer, DefaultIncurrents, c.pin, c.pout)
    /\ call = NoCall
    /\ ret = NoRet
    /\ ode = NoOde

NextLattice ==
    \/ solvecolony(NoKw)
    \/ Resume

SpecLattice == InitLattice /\ [][NextLattice]_vars

\* ================================================================ properties
\* The lattice the colony was built for: n = nz*2, m = mz.
Width == n \div 2
Height == m

\* The conductance vector of the colony, internal conduits first.
Conductivities == Concat(InnerConduits, OutflowConduits)

\* -------------------------------------------------------------------- C1
\* The arguments break a precondition of setouterconductivities: lists of
\* different length, an index outside 0..N-1, an index that is no integer,
\* or a negative new value.
ViolatesPrecondition(a) ==
    /\ a.lists
    /\ \/ Len(a.nodeinds) # Len(a.vals)
       \/ \E k \in DOMAIN a.nodeinds :
            ~a.nodeinds[k].int \/ a.nodeinds[k].v \notin 0..(N - 1)
       \/ \E k \in DOMAIN a.vals : a.vals[k].v < 0

\* C1: a call of setouterconductivities whose arguments break a precondition
\* leaves OutflowConduits exactly as it was before the call, with no entry
\* changed, not even for the pairs listed before the offending one.
C1_RejectedCallChangesNothing ==
    [][(/\ call.op = "none"
        /\ call'.op = "setouterconductivities"
        /\ ViolatesPrecondition(call'.args))
       => OutflowConduits' = OutflowConduits]_vars

\* -------------------------------------------------------------------- C2
\* Lists of equal length (possibly empty), every index an integer in
\* 0..N-1, every new value nonnegative.
ValidArgs(a) ==
    /\ a.lists
    /\ Len(a.nodeinds) = Len(a.vals)
    /\ \A k \in DOMAIN a.nodeinds : a.nodeinds[k].int /\ a.nodeinds[k].v \in 0..(N - 1)
    /\ \A k \in DOMAIN a.vals : a.vals[k].v >= 0

Listed(a, i) == \E k \in DOMAIN a.nodeinds : a.nodeinds[k].v = i
\* The value given for node i (the last one, when i is listed twice).
GivenValue(a, i) ==
    LET ks == {k \in DOMAIN a.nodeinds : a.nodeinds[k].v = i}
        last == CHOOSE k \in ks : \A j \in ks : j <= k
    IN  a.vals[last].v

\* C2: a call of setouterconductivities with valid arguments (equal-length
\* lists, possibly empty; integer indices in 0..N-1; nonnegative values)
\* completes without error, leaves each listed node holding exactly the
\* value given for it, every other outflow conductance as it was, and the
\* rest of the colony unchanged.
C2_ValidCallStoresGivenValues ==
    [][(/\ call.op = "none"
        /\ call'.op = "setouterconductivities"
        /\ ValidArgs(call'.args))
       => /\ ret'.outcome = "returned"
          /\ ret'.what = "done"
          /\ \A i \in 0..(N - 1) :
                OutflowConduits'[i] = IF Listed(call'.args, i)
                                      THEN GivenValue(call'.args, i)
                                      ELSE OutflowConduits[i]
          /\ UNCHANGED <<topology, InnerConduits, InFlow>>]_vars

\* -------------------------------------------------------------------- C3
\* C3: in every state reached by construction, setouterconductivities calls
\* and written-back UpdateColony results, every entry of InnerConduits and
\* of OutflowConduits is nonnegative.
C3_ConductancesNonnegative ==
    /\ \A e \in DOMAIN InnerConduits : GeZero(InnerConduits[e])
    /\ \A i \in DOMAIN OutflowConduits : GeZero(OutflowConduits[i])

\* -------------------------------------------------------------------- C4
\* C4: a colony built for a w by h lattice has N = 2*w*h nodes, N outflow
\* conductances and N injections; Incidence has one row per internal conduit
\* and N columns; the IncidenceFull solvecolony builds has N more rows than
\* Incidence and N columns, and as many rows as its conductivityfull has
\* entries.
C4_Sizes ==
    /\ N = 2 * Width * Height
    /\ ArrLen(OutflowConduits) = 2 * Width * Height
    /\ ArrLen(InFlow) = 2 * Width * Height
    /\ ArrLen(Incidence) = ArrLen(InnerConduits)
    /\ ArrLen(Incidence) = ArrLen(rowinds)
    /\ \A e \in DOMAIN Incidence : ArrLen(Incidence[e]) = N
    /\ ArrLen(IncUsed(NoKw)) = ArrLen(Incidence) + N
    /\ \A e \in DOMAIN IncUsed(NoKw) : ArrLen(IncUsed(NoKw)[e]) = N
    /\ ArrLen(CondUsed(NoKw)) = ArrLen(IncUsed(NoKw))
    /\ (call.op = "solvecolony" /\ ret.outcome = "returned")
        => /\ ArrLen(ret.value.IncidenceFull) = ArrLen(Incidence) + N
           /\ ArrLen(ret.value.conductivityfull) = ArrLen(ret.value.IncidenceFull)
           /\ ArrLen(ret.value.Pressures) = N

\* A solve has returned for a lattice of more than one cell each way.
C4_Witness ==
    /\ call.op = "solvecolony"
    /\ ret.outcome = "returned"
    /\ Width >= 2
    /\ Height >= 2
    /\ ArrLen(ret.value.IncidenceFull) = Edges + 2 * Width * Height

\* -------------------------------------------------------------------- C5
RECURSIVE FlowInto(_, _, _)
\* The net flow the first k internal conduits carry into node i: a conduit
\* runs from rowinds[e] to colinds[e].
FlowInto(f, i, k) ==
    IF k = 0 THEN 0
    ELSE LET a == IF colinds[k - 1] = i
                  THEN FAdd(FlowInto(f, i, k - 1), f[k - 1])
                  ELSE FlowInto(f, i, k - 1)
         IN  IF rowinds[k - 1] = i THEN FSub(a, f[k - 1]) ELSE a

\* C5: when solvecolony returns flows for a network every node of which is
\* joined to the outside, the flows balance at every node: what the internal
\* conduits carry in, less what the node's outflow conduit carries (signed
\* as its row of IncidenceFull), equals the node's injection InFlow[i], to
\* the tolerance of the solver (here: exactly, the converged pressures being
\* the exact solution).
C5_FlowConservation ==
    (/\ call.op = "solvecolony"
     /\ ret.outcome = "returned"
     /\ ret.value.Flows # <<>>
     /\ ~Singular(ret.value.conductivityfull))
    => \A i \in 0..(N - 1) :
         FSub(FlowInto(ret.value.Flows[1], i, Edges), ret.value.Flows[1][Edges + i])
            = InFlow[i]

\* Flows were returned for a connected network of nonnegative conductances
\* in which an internal conduit carries flow.
C5_Witness ==
    /\ call.op = "solvecolony"
    /\ ret.outcome = "returned"
    /\ ret.value.Flows # <<>>
    /\ ~Singular(ret.value.conductivityfull)
    /\ \A e \in DOMAIN ret.value.conductivityfull : ret.value.conductivityfull[e] >= 0
    /\ \E e \in 0..(Edges - 1) : ret.value.Flows[1][e] # 0

\* -------------------------------------------------------------------- C6
\* C6: the S and dCdt vectors solvecolony returns have one entry per entry
\* of the conductance vector it used (its own or the one passed in), entry i
\* computed from conductance i and the absolute pressure difference of row i
\* of IncidenceFull, with the inner parameter set for the internal conduits
\* (the first entries) and the outer parameter set for the rest.
C6_FeedbackAligned ==
    (/\ call.op = "solvecolony"
     /\ ret.outcome = "returned"
     /\ ret.value.S # <<>>)
    => LET C == ret.value.conductivityfull
           A == ret.value.IncidenceFull
           p == ret.value.Pressures
       IN  /\ ArrLen(ret.value.S[1]) = ArrLen(C)
           /\ ArrLen(ret.value.dCdt[1]) = ArrLen(C)
           /\ \A i \in DOMAIN C :
                LET prm == IF i < Edges THEN dCdt_in_params ELSE dCdt_out_params
                    one == dCdt_default(Full(1, C[i]),
                                        Full(1, FAbs(RowDot(A[i], p, ArrLen(p)))), prm)
                IN  /\ ret.value.S[1][i] = one.S[0]
                    /\ ret.value.dCdt[1][i] = one.dCdt[0]

\* S and dCdt were returned for a conductance vector passed in that differs
\* from the colony's own, with different inner and outer parameter sets.
C6_Witness ==
    /\ call.op = "solvecolony"
    /\ ret.outcome = "returned"
    /\ ret.value.S # <<>>
    /\ call.args.kw.conductivityfull # <<>>
    /\ ret.value.conductivityfull # Conductivities
    /\ dCdt_in_params # dCdt_out_params
    /\ \E i \in DOMAIN ret.value.dCdt[1] : ret.value.dCdt[1][i] # 0

AtRest == dCdt_in_params.r = 0 /\ dCdt_out_params.r = 0

C9_CallsLeaveColonyUnchanged ==
    [][call'.op \in {"solvecolony", "UpdateColony"} => UNCHANGED colony]_vars

\* UpdateColony returned conductances that differ from the colony's, for a
\* colony that adapts (some r # 0).
C9_Witness ==
    /\ call.op = "UpdateColony"
    /\ ret.outcome = "returned"
    /\ ~AtRest
    /\ ret.stepper = "running"
    /\ ret.value # Conductivities

\* ------------------------------------------------------------------- C10
\* C10: a solvecolony call whose pressure solve did not converge ends in a
\* failure; it never returns a dictionary holding unconverged pressures.
C10_UnconvergedSolveFails ==
    (/\ call.op = "solvecolony"
     /\ ret.outcome = "returned")
    => ret.info = 0

\* ------------------------------------------------------------------- C11
\* C11: when the stepper of UpdateColony gives up before it reaches tmax,
\* the call ends in a failure; it never returns a conductance vector
\* computed from the stepper's unsuccessful state.
C11_StepperFailureSurfaced ==
    (/\ call.op = "UpdateColony"
     /\ ret.outcome = "returned")
    => ret.stepper # "failed"

\* ------------------------------------------------------------------- C12
\* C12 as stated: during one UpdateColony call the pressure system is solved
\* exactly once, in the reference solve at t = 0; no right-hand-side
\* evaluation of the integrator solves it again.
C12_SolvedOnce ==
    ode.pc = "integrating" => ode.solves = 1

\* C12, amended: during one UpdateColony call the pressure system is solved
\* once in the reference solve at t = 0 and once more at every evaluation of
\* the right-hand side: the evaluation runs bicgstab on the system of the
\* current conductance estimate, with the reference pressures as start
\* vector and the reference IncidenceFull, and takes the pressure
\* differences from the pressures bicgstab hands back.
C12_EveryEvaluationSolves ==
    [][/\ (ode.pc = "idle" /\ ode'.pc = "integrating")
            => /\ ode'.solves = 1
               /\ \E b \in SolverRuns(NoKw) : ode'.Pressures = b.x
       /\ (ode.pc = "integrating" /\ ode'.pc = "integrating")
            => /\ ode'.solves = ode.solves + 1
               /\ ode'.Pressures = ode.Pressures
               /\ ode'.IncidenceFull = ode.IncidenceFull
               /\ ode'.stepper = "running"
                    => LET C0 == [i \in DOMAIN ode.y |-> Exp(ode.y[i])]
                       IN  \E b \in Bicgstab(ode.IncidenceFull, C0, InFlow, ode.Pressures) :
                            \E h \in 1..(ode.tmax - ode.t) :
                               ode'.y = [i \in DOMAIN ode.y |->
                                           FAdd(ode.y[i],
                                                FScale(h, dlnCdt(ode.y, b.x)[i]))]]_vars

\* The integrator has taken a step after a right-hand-side evaluation whose
\* solve gave pressures other than those of the reference solve.
C12_Witness ==
    /\ call.op = "UpdateColony"
    /\ ode.pc = "integrating"
    /\ ode.stepper = "running"
    /\ ode.t > 0
    /\ ode.solves >= 2
    /\ LET C0 == [i \in DOMAIN ode.y |-> Exp(ode.y[i])]
       IN  \E b \in Bicgstab(ode.IncidenceFull, C0, InFlow, ode.Pressures) :
             b.info = 0 /\ b.x # ode.Pressures

\* ------------------------------------------------------------------- C13
\* C13: row k of Incidence has exactly two nonzero entries, -1 in column
\* rowinds[k] and +1 in column colinds[k]; each of the N rows solvecolony
\* appends has exactly one nonzero entry, -1 in the column of its own node,
\* the rows in node order 0..N-1.
C13_IncidenceRows ==
    /\ \A k \in DOMAIN Incidence :
        /\ rowinds[k] \in 0..(N - 1)
        /\ colinds[k] \in 0..(N - 1)
        /\ rowinds[k] # colinds[k]
        /\ \A j \in 0..(N - 1) :
             Incidence[k][j] = IF j = rowinds[k] THEN 0 - 1
                               ELSE IF j = colinds[k] THEN 1 ELSE 0
    /\ LET A == IncUsed(NoKw)
       IN  /\ \A k \in DOMAIN Incidence : A[k] = Incidence[k]
           /\ \A i \in 0..(N - 1) : \A j \in 0..(N - 1) :
                A[ArrLen(Incidence) + i][j] = IF j = i THEN 0 - 1 ELSE 0
    /\ (call.op = "solvecolony" /\ ret.outcome = "returned"
            /\ call.args.kw.IncidenceFull = <<>>)
        => ret.value.IncidenceFull = IncUsed(NoKw)

\* A solve has returned the IncidenceFull of a lattice with a conduit from
\* an odd node to the node ahead of it in the next row.
C13_Witness ==
    /\ call.op = "solvecolony"
    /\ ret.outcome = "returned"
    /\ Height >= 2
    /\ \E k \in DOMAIN rowinds :
        /\ rowinds[k] % 2 = 1
        /\ colinds[k] = rowinds[k] + n - 1
        /\ ret.value.IncidenceFull[k][rowinds[k]] = 0 - 1
        /\ ret.value.IncidenceFull[k][colinds[k]] = 1

\* ------------------------------------------------------------------- C14
\* The nodes joined to node i by some internal conduit.
Neighbours(i) ==
    {j \in 0..(N - 1) : \E k \in DOMAIN rowinds :
        \/ (rowinds[k] = i /\ colinds[k] = j)
        \/ (colinds[k] = i /\ rowinds[k] = j)}

\* C14: every internal conduit joins two distinct nodes with
\* 0 <= rowinds[k] < colinds[k] < N, no pair of nodes is listed by more than
\* one conduit, every entry of Adjacency is 0 or 1, and the degree of each
\* node (the diagonal of Adjacency - Laplacian) is the number of its distinct
\* neighbours.
C14_SimpleGraph ==
    /\ \A k \in DOMAIN rowinds : 0 <= rowinds[k] /\ rowinds[k] < colinds[k] /\ colinds[k] < N
    /\ \A k \in DOMAIN rowinds : \A l \in DOMAIN rowinds :
        (rowinds[k] = rowinds[l] /\ colinds[k] = colinds[l]) => k = l
    /\ \A i \in 0..(N - 1) : \A j \in 0..(N - 1) : Adjacency[i][j] \in {0, 1}
    /\ \A i \in 0..(N - 1) :
        Adjacency[i][i] - Laplacian[i][i] = Cardinality(Neighbours(i))

====
